---------------------------- MODULE Spec2Model ----------------------------
(***************************************************************************)
(* State-machine model of functions_optimized.c: the moving block          *)
(* bootstrap, the Monte Carlo path simulation, the Sharpe-ratio evaluator  *)
(* and the Newton-Raphson portfolio optimizer.                             *)
(*                                                                         *)
(* The C code computes in IEEE-754 binary64.  The model keeps the shape of *)
(* that arithmetic (binary mantissa, round-to-nearest-even after every     *)
(* operation, NaN and infinities) with a mantissa of MantBits bits instead *)
(* of 53, so that every operation fits TLC's integers.  The exponent is    *)
(* unbounded: the model has no overflow to infinity and no underflow, the  *)
(* code has none either on inputs of moderate size.                        *)
(***************************************************************************)
EXTENDS Integers, Sequences, FiniteSets, TLC

(***************************************************************************)
(* Bounds of the model.                                                    *)
(***************************************************************************)
\* width of the mantissa of a double in the model (53 in the code)
MantBits == 10

(***************************************************************************)
(* Floating-point values: cls "fin" is m * 2^e with m = 0 (and e = 0) or   *)
(* 2^(MantBits-1) <= |m| < 2^MantBits; "inf" carries its sign in m; "nan". *)
(* The sign of a zero is not kept: the code never divides by a zero that   *)
(* could be negative.                                                      *)
(***************************************************************************)
Pow2(k) == 2 ^ k

RECURSIVE BitLen(_)
BitLen(x) == IF x = 0 THEN 0 ELSE 1 + BitLen(x \div 2)

Abs(x) == IF x < 0 THEN -x ELSE x

Sgn(x) == IF x < 0 THEN -1 ELSE IF x > 0 THEN 1 ELSE 0

Fin(m, e) == [cls |-> "fin", m |-> m, e |-> e]

NaN == [cls |-> "nan", m |-> 0, e |-> 0]

PInf == [cls |-> "inf", m |-> 1, e |-> 0]

NInf == [cls |-> "inf", m |-> -1, e |-> 0]

Zero == Fin(0, 0)

IsNaN(a) == a.cls = "nan"

IsFin(a) == a.cls = "fin"

\* sign * (x + a sticky fraction) * 2^e, x >= 0, rounded to MantBits bits,
\* to nearest, ties to even
Round(sign, x, e, sticky) ==
    IF x = 0 THEN Zero
    ELSE LET L == BitLen(x) IN
         IF L <= MantBits
         THEN Fin(sign * x * Pow2(MantBits - L), e - (MantBits - L))
         ELSE LET s    == L - MantBits
                  q    == x \div Pow2(s)
                  r    == x % Pow2(s)
                  half == Pow2(s - 1)
                  up   == r > half \/ (r = half /\ (sticky \/ q % 2 = 1))
                  q1   == IF up THEN q + 1 ELSE q
              IN  IF q1 = Pow2(MantBits)
                  THEN Fin(sign * Pow2(MantBits - 1), e + s + 1)
                  ELSE Fin(sign * q1, e + s)

\* (double) of an int
FromInt(i) == Round(IF i < 0 THEN -1 ELSE 1, Abs(i), 0, FALSE)

FNeg(a) == IF IsNaN(a) THEN NaN ELSE [a EXCEPT !.m = -a.m]

FAdd(a, b) ==
    IF IsNaN(a) \/ IsNaN(b) THEN NaN
    ELSE IF ~IsFin(a) THEN (IF ~IsFin(b) /\ a.m # b.m THEN NaN ELSE a)
    ELSE IF ~IsFin(b) THEN b
    ELSE IF a.m = 0 THEN b
    ELSE IF b.m = 0 THEN a
    ELSE LET hi == IF a.e >= b.e THEN a ELSE b
             lo == IF a.e >= b.e THEN b ELSE a
             d  == hi.e - lo.e
         IN  IF d > MantBits + 1 THEN hi
             ELSE LET x == hi.m * Pow2(d) + lo.m
                  IN  Round(IF x < 0 THEN -1 ELSE 1, Abs(x), lo.e, FALSE)

FSub(a, b) == FAdd(a, FNeg(b))

FMul(a, b) ==
    IF IsNaN(a) \/ IsNaN(b) THEN NaN
    ELSE IF ~IsFin(a) \/ ~IsFin(b)
         THEN LET s == Sgn(a.m) * Sgn(b.m)
              IN  IF s = 0 THEN NaN ELSE IF s > 0 THEN PInf ELSE NInf
    ELSE LET x == a.m * b.m
         IN  Round(IF x < 0 THEN -1 ELSE 1, Abs(x), a.e + b.e, FALSE)

FDiv(a, b) ==
    IF IsNaN(a) \/ IsNaN(b) THEN NaN
    ELSE IF ~IsFin(a)
         THEN (IF ~IsFin(b) THEN NaN ELSE IF b.m >= 0 THEN a ELSE FNeg(a))
    ELSE IF ~IsFin(b) THEN Zero
    ELSE IF b.m = 0
         THEN (IF a.m = 0 THEN NaN ELSE IF a.m > 0 THEN PInf ELSE NInf)
    ELSE IF a.m = 0 THEN Zero
    ELSE LET n == Abs(a.m) * Pow2(MantBits + 2)
             d == Abs(b.m)
         IN  Round(Sgn(a.m) * Sgn(b.m), n \div d,
                   a.e - b.e - (MantBits + 2), n % d # 0)

\* floor of the square root of n >= 0, found bit by bit from bit k down
RECURSIVE ISqrtFrom(_, _, _)
ISqrtFrom(n, r, k) ==
    IF k < 0 THEN r
    ELSE LET t == r + Pow2(k)
         IN  ISqrtFrom(n, IF t * t <= n THEN t ELSE r, k - 1)

ISqrt(n) == ISqrtFrom(n, 0, (BitLen(n) + 1) \div 2)

FSqrt(a) ==
    IF IsNaN(a) THEN NaN
    ELSE IF ~IsFin(a) THEN (IF a.m > 0 THEN PInf ELSE NaN)
    ELSE IF a.m < 0 THEN NaN
    ELSE IF a.m = 0 THEN Zero
    ELSE LET k == IF (a.e - (MantBits + 2)) % 2 = 0
                  THEN MantBits + 2 ELSE MantBits + 3
             n == a.m * Pow2(k)
             r == ISqrt(n)
         IN  Round(1, r, (a.e - k) \div 2, r * r # n)

\* a < b, a == b of C: false as soon as one side is NaN
FLt(a, b) ==
    /\ ~IsNaN(a)
    /\ ~IsNaN(b)
    /\ IF ~IsFin(a) THEN a.m < 0 /\ b # a
       ELSE IF ~IsFin(b) THEN b.m > 0
       ELSE IF Sgn(a.m) # Sgn(b.m) THEN Sgn(a.m) < Sgn(b.m)
       ELSE IF a.m = 0 THEN FALSE
       ELSE IF a.e # b.e THEN (IF a.m > 0 THEN a.e < b.e ELSE a.e > b.e)
       ELSE a.m < b.m

FEq(a, b) == ~IsNaN(a) /\ ~IsNaN(b) /\ a = b

FLe(a, b) == FLt(a, b) \/ FEq(a, b)

\* fmax of C: the other argument when one is NaN
FMax(a, b) == IF IsNaN(a) THEN b ELSE IF IsNaN(b) THEN a
              ELSE IF FLt(a, b) THEN b ELSE a

\* the double nearest to the exact ratio (n / d) * 2^e, n > 0, d > 0
RoundRatio(n, d, e) ==
    LET k == MantBits + 2 + BitLen(d)
        x == n * Pow2(k)
    IN  Round(1, x \div d, e - k, x % d # 0)

\* the double nearest to the decimal n / d
Lit(n, d) == RoundRatio(n, d, 0)

(***************************************************************************)
(* calculate_sharpe_ratio (lines 134-151)                                  *)
(***************************************************************************)
\* the loop of lines 139-142 from index i on: <<sum, sum_sq>>
RECURSIVE SharpeSums(_, _, _, _)
SharpeSums(portfolio_values, i, sum, sum_sq) ==
    IF i > Len(portfolio_values) THEN <<sum, sum_sq>>
    ELSE SharpeSums(portfolio_values, i + 1,
                    FAdd(sum, portfolio_values[i]),
                    FAdd(sum_sq, FMul(portfolio_values[i], portfolio_values[i])))

\* variance = sum_sq / n_values - mean * mean
Variance(sum, sum_sq, n_values) ==
    LET mean == FDiv(sum, FromInt(n_values))
    IN  FSub(FDiv(sum_sq, FromInt(n_values)), FMul(mean, mean))

calculate_sharpe_ratio(portfolio_values, n_values, risk_free_rate) ==
    IF n_values <= 1 THEN Zero
    ELSE LET s        == SharpeSums(portfolio_values, 1, Zero, Zero)
             mean     == FDiv(s[1], FromInt(n_values))
             variance == Variance(s[1], s[2], n_values)
             std_dev  == FSqrt(variance)
         IN  IF FEq(std_dev, Zero) THEN Zero
             ELSE FDiv(FSub(mean, risk_free_rate), std_dev)

(***************************************************************************)
(* calculate_portfolio_returns (lines 112-129) and negative_sharpe_ratio   *)
(* (lines 157-167).  arrival_values is row-major, n_assets per simulation; *)
(* sequences are 1-based where the C arrays are 0-based.                   *)
(***************************************************************************)
\* the inner loop of lines 122-124 from asset a on
RECURSIVE PortfolioValue(_, _, _, _, _, _)
PortfolioValue(weights, arrival_values, n_assets, sim, asset, value) ==
    IF asset >= n_assets THEN value
    ELSE PortfolioValue(weights, arrival_values, n_assets, sim, asset + 1,
             FAdd(value, FMul(weights[asset + 1],
                              arrival_values[sim * n_assets + asset + 1])))

calculate_portfolio_returns(weights, arrival_values, n_assets, n_simulations) ==
    [sim \in 1..n_simulations |->
        PortfolioValue(weights, arrival_values, n_assets, sim - 1, 0, Zero)]

\* the penalty returned when portfolio_values cannot be allocated (1e6)
Penalty == FromInt(1000000)

\* alloc_ok: whether the allocation of portfolio_values succeeded
negative_sharpe_ratio(weights, arrival_values, n_assets, n_simulations, risk_free_rate, alloc_ok) ==
    IF ~alloc_ok THEN Penalty
    ELSE FNeg(calculate_sharpe_ratio(
                 calculate_portfolio_returns(weights, arrival_values,
                                             n_assets, n_simulations),
                 n_simulations, risk_free_rate))

(***************************************************************************)
(* moving_block_bootstrap (lines 28-69): its tests, and random_int (lines  *)
(* 340-342).                                                               *)
(***************************************************************************)
\* a seeding test that forgets seed_set
ShouldSeedAgain(seed, seed_set) == seed > 0

\* line 33: seed > 0 && !seed_set
ShouldSeed(seed, seed_set) == seed > 0 /\ ~seed_set

\* a length test that lets every block size through
TooShortNever(n_returns, block_size) == FALSE

\* line 38: n_returns < block_size
TooShort(n_returns, block_size) == n_returns < block_size

\* a copy loop that does not stop at the end of the row
CopyGuardWholeBlock(i, block_size, sample_idx, sample_size) == i < block_size

\* line 60: i < block_size && sample_idx < sample_size
CopyGuard(i, block_size, sample_idx, sample_size) ==
    i < block_size /\ sample_idx < sample_size

\* a random_int that can also return max_val
random_int_inclusive(r, max_val) == r % (Abs(max_val) + 1)

\* line 341: rand() % max_val, for the value r >= 0 of rand() and
\* max_val # 0; the remainder of C takes the sign of r
random_int(r, max_val) == r % Abs(max_val)

(***************************************************************************)
(* State.  Each operation of the file has its own program counter and      *)
(* locals; a specification below runs one operation and leaves the         *)
(* variables of the others at rest.                                        *)
(***************************************************************************)
VARIABLES
    \* calculate_sharpe_ratio: arguments, position, returned value
    sh_values, sh_rf, sh_pc, sh_ret,
    \* optimize_portfolio_newton_raphson: arguments
    arrival_values, n_assets, n_simulations, initial_weights,
    risk_free_rate, max_iterations, tolerance,
    \* optimize_portfolio_newton_raphson: locals, position, returned pointer
    weights, iter, hessian, gradient, delta, alpha, f_current, f_new,
    ls_iter, accepted, row, opt_pc, opt_ret,
    \* the weights as they were when the line search of the round began
    round_weights,
    \* the heap blocks of the optimizer, what went wrong with them, and
    \* whether the heap has run out of blocks for portfolio_values
    heap, mem_err, pv_oom,
    \* moving_block_bootstrap: arguments of the current call
    log_returns, n_returns, n_bootstrap, sample_size, block_size, seed,
    \* moving_block_bootstrap: the static flag, the generator's seed, the
    \* number of calls of srand and of the function so far
    seed_set, rng_seed, srand_calls, calls,
    \* moving_block_bootstrap: locals, position, returned pointer
    n_blocks, bootstrap_samples, bootstrap_idx, sample_idx, block_start,
    copy_i, gen_pc, gen_ret,
    \* moving_block_bootstrap: allocations and draws of the current call,
    \* the blocks it copied, whether it went outside an array
    allocs, draws, blocks, oob,
    \* monte_carlo_simulation: arguments
    S0, mc_samples, mc_n_bootstrap, mc_sample_size, iterations,
    \* monte_carlo_simulation: locals, position, returned pointer, whether
    \* it went outside an array
    results, mc_iter, current_price, mc_bootstrap_idx, mc_t, sim_pc,
    sim_ret, sim_oob

sharpeVars == <<sh_values, sh_rf, sh_pc, sh_ret>>

optArgs == <<arrival_values, n_assets, n_simulations, initial_weights,
             risk_free_rate, max_iterations, tolerance>>

optLocals == <<weights, iter, hessian, gradient, delta, alpha, f_current,
               f_new, ls_iter, accepted, row, opt_pc, opt_ret,
               round_weights>>

optHeap == <<heap, mem_err, pv_oom>>

optVars == <<optArgs, optLocals, optHeap>>

genArgs == <<log_returns, n_returns, n_bootstrap, sample_size, block_size,
             seed>>

genStatic == <<seed_set, rng_seed, srand_calls>>

genVars == <<genArgs, genStatic, calls, n_blocks, bootstrap_samples,
             bootstrap_idx, sample_idx, block_start, copy_i, gen_pc,
             gen_ret, allocs, draws, blocks, oob>>

simArgs == <<S0, mc_samples, mc_n_bootstrap, mc_sample_size, iterations>>

simVars == <<simArgs, results, mc_iter, current_price, mc_bootstrap_idx,
             mc_t, sim_pc, sim_ret, sim_oob>>

\* what an operation leaves alone: the variables of the other operations
notSharpe == <<optVars, genVars, simVars>>

notOpt == <<sharpeVars, genVars, simVars>>

notGen == <<sharpeVars, optVars, simVars>>

notSim == <<sharpeVars, optVars, genVars>>

vars == <<sharpeVars, optVars, genVars, simVars>>

(***************************************************************************)
(* Specification SpecSharpe: calculate_sharpe_ratio on every sequence of   *)
(* at most MaxValues values of SharpeValues.                               *)
(***************************************************************************)
MaxValues == 3

SharpeValues == {Lit(1, 100), Lit(1, 2), FromInt(1), FromInt(3)}

RiskFreeRates == {Zero, Lit(1, 100)}

SeqsUpTo(S, n) == UNION {[1..k -> S] : k \in 0..n}

SharpeOff ==
    /\ sh_values = <<>>
    /\ sh_rf = Zero
    /\ sh_pc = "off"
    /\ sh_ret = Zero

SharpeInit ==
    /\ sh_values \in SeqsUpTo(SharpeValues, MaxValues)
    /\ sh_rf \in RiskFreeRates
    /\ sh_pc = "call"
    /\ sh_ret = Zero

SharpeCall ==
    /\ sh_pc = "call"
    /\ sh_ret' = calculate_sharpe_ratio(sh_values, Len(sh_values), sh_rf)
    /\ sh_pc' = "done"
    /\ UNCHANGED <<notSharpe, sh_values, sh_rf>>

(***************************************************************************)
(* The heap of optimize_portfolio_newton_raphson: the working weight       *)
(* vector, the Hessian's row table and rows, the gradient and delta.  A    *)
(* block is "none" (never allocated), "live" or "freed".                   *)
(***************************************************************************)
WeightsBlock == <<"weights", 0>>

TableBlock == <<"hessian", 0>>

RowBlock(r) == <<"row", r>>

GradientBlock == <<"gradient", 0>>

DeltaBlock == <<"delta", 0>>

Blocks(n) == {WeightsBlock, TableBlock, GradientBlock, DeltaBlock}
                 \cup {RowBlock(r) : r \in 0..(n - 1)}

ScratchBlocks(n) == Blocks(n) \ {WeightsBlock}

\* a successful malloc: the pointer now names a live block (the block it
\* named before is lost if it was still live)
Malloc(M, b) ==
    [heap |-> [M.heap EXCEPT ![b] = "live"],
     err  |-> IF M.heap[b] = "live" THEN "leak" ELSE M.err]

\* free: releasing a block that is not live is a double (or wild) free
Free(M, b) ==
    [heap |-> [M.heap EXCEPT ![b] = "freed"],
     err  |-> IF M.heap[b] # "live" THEN "double_free" ELSE M.err]

\* the loop of free_matrix (lines 334-336) from row r on
RECURSIVE FreeRows(_, _, _)
FreeRows(M, r, rows) ==
    IF r >= rows THEN M ELSE FreeRows(Free(M, RowBlock(r)), r + 1, rows)

\* a free_matrix that releases the rows and forgets the row table
free_matrix_rows_only(M, rows) == FreeRows(M, 0, rows)

\* free_matrix (lines 331-338) on a non-NULL matrix
free_matrix(M, rows) == Free(FreeRows(M, 0, rows), TableBlock)

\* the outcomes of k consecutive allocations of portfolio_values (line 114):
\* they succeed until the heap has no block of n_simulations doubles left,
\* and fail from then on
PvOutcomes(k, oom) ==
    IF oom THEN {[j \in 1..k |-> FALSE]}
    ELSE {[j \in 1..k |-> j < f] : f \in 1..(k + 1)}

(***************************************************************************)
(* optimize_portfolio_newton_raphson (lines 173-307)                       *)
(***************************************************************************)
\* iterations of the backtracking loop (line 256)
LS_MAX == 10

\* log2 of 1/h for the finite-difference step h of line 199.  The code's
\* h = 1e-6 is far above the spacing 2^-53 of its doubles near 1; with the
\* model's mantissa the step is scaled up so that weights[i] +- h are still
\* distinct from weights[i], as they are in the code.
HExp == 3

HStep == Round(1, 1, -HExp, FALSE)

\* the regularisation 1e-6 added to the diagonal (line 226)
Reg == RoundRatio(1, 15625, -6)

\* a cell of malloc'ed memory that has not been written
Uninit == [cls |-> "uninit", m |-> 0, e |-> 0]

Objective(w, ok) ==
    negative_sharpe_ratio(w, arrival_values, n_assets, n_simulations,
                          risk_free_rate, ok)

\* lines 207-226 for asset a (0-based): the perturbed and restored weights,
\* gradient[a] and hessian[a][a]
GradientAt(w, a, ok) ==
    LET h          == HStep
        w_fwd      == [w EXCEPT ![a + 1] = FAdd(@, h)]
        f_forward  == Objective(w_fwd, ok[1])
        w_bwd      == [w_fwd EXCEPT ![a + 1] = FSub(@, FMul(FromInt(2), h))]
        f_backward == Objective(w_bwd, ok[2])
        w_rest     == [w_bwd EXCEPT ![a + 1] = FAdd(@, h)]
        g          == FDiv(FSub(f_forward, f_backward), FMul(FromInt(2), h))
        hd         == FDiv(FSub(FAdd(f_forward, f_backward),
                                FMul(FromInt(2), Objective(w_rest, ok[3]))),
                           FMul(h, h))
    IN  [weights |-> w_rest, g |-> g, h |-> FAdd(hd, Reg)]

\* an attempt that starts again from the weights w0 held before the round
LineSearchBaseRolledBack(w, w0) == w0

\* lines 259-261 update weights in place: an attempt starts from w, the
\* weights the attempt before it left, not from w0, those held when the
\* line search began
LineSearchBase(w, w0) == w

\* line 260: weights[i] += alpha * delta[i]
StepWeights(w, a, d) == [k \in DOMAIN w |-> FAdd(w[k], FMul(a, d[k]))]

\* line 266: weights[i] = fmax(weights[i], 0.0)
ClampWeights(w) == [k \in DOMAIN w |-> FMax(w[k], Zero)]

\* the running sum of a vector, from element k on (lines 264-268, 288-291)
RECURSIVE SumFrom(_, _, _)
SumFrom(v, k, acc) ==
    IF k > Len(v) THEN acc ELSE SumFrom(v, k + 1, FAdd(acc, v[k]))

\* lines 270-274: divide by the sum when it is positive
Renormalize(w, sum_weights) ==
    IF FLt(Zero, sum_weights)
    THEN [k \in DOMAIN w |-> FDiv(w[k], sum_weights)]
    ELSE w

\* lines 263-274: the projection onto the simplex
ProjectToSimplex(w) ==
    LET c == ClampWeights(w) IN Renormalize(c, SumFrom(c, 1, Zero))

\* an acceptance test that also takes a step of equal value
AcceptsNotWorse(fnew, fcur) == FLe(fnew, fcur)

\* line 278: the step is accepted
Accepts(fnew, fcur) == FLt(fnew, fcur)

\* lines 288-292
GradNorm(g) == FSqrt(SumFrom([k \in DOMAIN g |-> FMul(g[k], g[k])], 1, Zero))

Mem == [heap |-> heap, err |-> mem_err]

SetMem(M) == heap' = M.heap /\ mem_err' = M.err

\* a return of the call: NULL or the weight vector
Return(r) == opt_ret' = r /\ opt_pc' = "done"

\* lines 177-183: allocate the weights and copy the initial ones
OptCall ==
    /\ opt_pc = "call"
    /\ \E ok \in BOOLEAN :
         /\ IF ok
            THEN /\ SetMem(Malloc(Mem, WeightsBlock))
                 /\ weights' = [k \in 1..n_assets |-> initial_weights[k]]
                 /\ opt_pc' = "loop"
                 /\ UNCHANGED opt_ret
            ELSE /\ Return("NULL")
                 /\ UNCHANGED <<heap, mem_err, weights>>
    /\ iter' = 0
    /\ UNCHANGED round_weights
    /\ UNCHANGED <<notOpt, optArgs, pv_oom, hessian, gradient, delta, alpha,
                   f_current, f_new, ls_iter, accepted, row>>

\* line 186: the test of the round loop; line 306 when it ends
OptLoop ==
    /\ opt_pc = "loop"
    /\ IF iter < max_iterations
       THEN opt_pc' = "alloc_table" /\ UNCHANGED opt_ret
       ELSE Return("weights")
    /\ UNCHANGED round_weights
    /\ UNCHANGED <<notOpt, optArgs, optHeap, weights, iter, hessian, gradient,
                   delta, alpha, f_current, f_new, ls_iter, accepted, row>>

\* allocate_matrix, line 317-318: the row table
AllocMatrixTable ==
    /\ opt_pc = "alloc_table"
    /\ \E ok \in BOOLEAN :
         /\ IF ok
            THEN /\ SetMem(Malloc(Mem, TableBlock))
                 /\ hessian' = [r \in 1..n_assets |->
                                   [c \in 1..n_assets |-> Uninit]]
                 /\ opt_pc' = IF n_assets > 0 THEN "alloc_rows"
                              ELSE "alloc_gradient"
            ELSE /\ opt_pc' = "alloc_gradient"
                 /\ UNCHANGED <<heap, mem_err, hessian>>
    /\ row' = 0
    /\ UNCHANGED round_weights
    /\ UNCHANGED <<notOpt, optArgs, pv_oom, weights, iter, gradient, delta,
                   alpha, f_current, f_new, ls_iter, accepted, opt_ret>>

\* allocate_matrix, lines 320-326: one row; on failure the rows allocated
\* so far and the table are released
AllocMatrixRow ==
    /\ opt_pc = "alloc_rows"
    /\ \E ok \in BOOLEAN :
         /\ IF ok
            THEN /\ SetMem(Malloc(Mem, RowBlock(row)))
                 /\ row' = row + 1
                 /\ opt_pc' = IF row + 1 < n_assets THEN "alloc_rows"
                              ELSE "alloc_gradient"
            ELSE /\ SetMem(free_matrix(Mem, row))
                 /\ opt_pc' = "alloc_gradient"
                 /\ UNCHANGED row
    /\ UNCHANGED round_weights
    /\ UNCHANGED <<notOpt, optArgs, pv_oom, weights, iter, hessian, gradient,
                   delta, alpha, f_current, f_new, ls_iter, accepted, opt_ret>>

\* lines 190-197: allocate the gradient, then give up if it or the Hessian
\* is missing
AllocGradient ==
    /\ opt_pc = "alloc_gradient"
    /\ \E ok \in BOOLEAN :
         LET have_hessian == heap[TableBlock] = "live"
             M1 == IF ok THEN Malloc(Mem, GradientBlock) ELSE Mem
             M2 == IF have_hessian THEN free_matrix(M1, n_assets) ELSE M1
             M3 == IF ok THEN Free(M2, GradientBlock) ELSE M2
         IN  /\ IF have_hessian /\ ok
                THEN /\ SetMem(M1)
                     /\ gradient' = [k \in 1..n_assets |-> Uninit]
                     /\ opt_pc' = "gradient"
                     /\ UNCHANGED <<opt_ret, weights, hessian>>
                ELSE /\ SetMem(Free(M3, WeightsBlock))
                     /\ Return("NULL")
                     /\ weights' = <<>>
                     /\ hessian' = <<>>
                     /\ gradient' = <<>>
    /\ row' = 0
    /\ UNCHANGED round_weights
    /\ UNCHANGED <<notOpt, optArgs, pv_oom, iter, delta, alpha, f_current,
                   f_new, ls_iter, accepted>>

\* lines 202-227, one asset: gradient[i] and hessian[i][i] by finite
\* differences
GradientStep ==
    /\ opt_pc = "gradient"
    /\ row < n_assets
    /\ \E ok \in PvOutcomes(3, pv_oom) :
         LET r == GradientAt(weights, row, ok)
         IN  /\ pv_oom' = ~ok[3]
             /\ weights' = r.weights
             /\ gradient' = [gradient EXCEPT ![row + 1] = r.g]
             /\ hessian' = [hessian EXCEPT ![row + 1][row + 1] = r.h]
    /\ row' = row + 1
    /\ UNCHANGED round_weights
    /\ UNCHANGED <<notOpt, optArgs, heap, mem_err, iter, delta, alpha,
                   f_current, f_new, ls_iter, accepted, opt_pc, opt_ret>>

\* lines 230-234: the off-diagonal entries are zero
ZeroOffDiagonal ==
    /\ opt_pc = "gradient"
    /\ row >= n_assets
    /\ hessian' = [r \in 1..n_assets |-> [c \in 1..n_assets |->
                      IF r # c THEN Zero ELSE hessian[r][c]]]
    /\ opt_pc' = "alloc_delta"
    /\ UNCHANGED round_weights
    /\ UNCHANGED <<notOpt, optArgs, optHeap, weights, iter, gradient, delta,
                   alpha, f_current, f_new, ls_iter, accepted, row, opt_ret>>

\* lines 238-253: allocate delta (or give up), solve the diagonal system,
\* measure f_current
SolveDelta ==
    /\ opt_pc = "alloc_delta"
    /\ \E ok \in BOOLEAN :
         /\ IF ok
            THEN /\ SetMem(Malloc(Mem, DeltaBlock))
                 /\ delta' = [k \in 1..n_assets |->
                                 FDiv(FNeg(gradient[k]), hessian[k][k])]
                 /\ alpha' = FromInt(1)
                 /\ \E pv \in PvOutcomes(1, pv_oom) :
                      /\ f_current' = Objective(weights, pv[1])
                      /\ pv_oom' = ~pv[1]
                 /\ opt_pc' = "linesearch"
                 /\ round_weights' = weights
                 /\ UNCHANGED <<opt_ret, weights, hessian, gradient>>
            ELSE /\ SetMem(Free(Free(free_matrix(Mem, n_assets),
                                     GradientBlock), WeightsBlock))
                 /\ Return("NULL")
                 /\ weights' = <<>>
                 /\ hessian' = <<>>
                 /\ gradient' = <<>>
                 /\ UNCHANGED <<delta, alpha, f_current, pv_oom,
                                round_weights>>
    /\ ls_iter' = 0
    /\ accepted' = FALSE
    /\ UNCHANGED <<notOpt, optArgs, iter, f_new, row>>

\* lines 256-285, one attempt of the backtracking loop: step, project,
\* measure, then accept (break) or halve alpha
LineSearchAttempt ==
    /\ opt_pc = "linesearch"
    /\ ls_iter < LS_MAX
    /\ \E ok \in PvOutcomes(1, pv_oom) :
         LET w  == ProjectToSimplex(
                       StepWeights(LineSearchBase(weights, round_weights),
                                   alpha, delta))
             fn == Objective(w, ok[1])
         IN  /\ pv_oom' = ~ok[1]
             /\ weights' = w
             /\ f_new' = fn
             /\ IF Accepts(fn, f_current)
                THEN /\ accepted' = TRUE
                     /\ opt_pc' = "converge"
                     /\ UNCHANGED <<alpha, ls_iter>>
                ELSE /\ alpha' = FMul(alpha, Lit(1, 2))
                     /\ ls_iter' = ls_iter + 1
                     /\ UNCHANGED <<accepted, opt_pc>>
    /\ UNCHANGED round_weights
    /\ UNCHANGED <<notOpt, optArgs, heap, mem_err, iter, hessian, gradient,
                   delta, f_current, row, opt_ret>>

\* line 256: the backtracking loop ends without an accepted step
LineSearchExhausted ==
    /\ opt_pc = "linesearch"
    /\ ls_iter >= LS_MAX
    /\ opt_pc' = "converge"
    /\ UNCHANGED round_weights
    /\ UNCHANGED <<notOpt, optArgs, optHeap, weights, iter, hessian, gradient,
                   delta, alpha, f_current, f_new, ls_iter, accepted, row,
                   opt_ret>>

\* lines 287-303: the convergence test; the scratch buffers of the round
\* are released on both branches
ConvergenceCheck ==
    /\ opt_pc = "converge"
    /\ SetMem(Free(Free(free_matrix(Mem, n_assets), GradientBlock),
                   DeltaBlock))
    /\ IF FLt(GradNorm(gradient), tolerance)
       THEN Return("weights") /\ UNCHANGED iter
       ELSE opt_pc' = "loop" /\ iter' = iter + 1 /\ UNCHANGED opt_ret
    /\ hessian' = <<>>
    /\ gradient' = <<>>
    /\ delta' = <<>>
    /\ round_weights' = <<>>
    /\ UNCHANGED <<notOpt, optArgs, pv_oom, weights, alpha, f_current, f_new,
                   ls_iter, accepted, row>>

(***************************************************************************)
(* Specification SpecOpt: one call of the optimizer on each input below.   *)
(***************************************************************************)
\* max_iterations ranges over 0..MaxIter
MaxIter == 2

\* arrival matrices: 3 simulations of 2 assets, the first simulation (1, 2)
\* and the first asset worth 2 in the second
ArrivalMatrices ==
    {a \in [1..6 -> {FromInt(1), FromInt(2)}] :
        a[1] = FromInt(1) /\ a[2] = FromInt(2) /\ a[3] = FromInt(2)}

\* initial weights: on the simplex (inside, on a vertex) and off it
InitialWeights ==
    {<<Lit(1, 2), Lit(1, 2)>>, <<Lit(1, 4), Lit(3, 4)>>,
     <<Zero, FromInt(1)>>, <<FromInt(2), FromInt(1)>>}

Tolerances == {Lit(1, 10000)}

OptOff ==
    /\ arrival_values = <<>>
    /\ n_assets = 0
    /\ n_simulations = 0
    /\ initial_weights = <<>>
    /\ risk_free_rate = Zero
    /\ max_iterations = 0
    /\ tolerance = Zero
    /\ weights = <<>>
    /\ iter = 0
    /\ hessian = <<>>
    /\ gradient = <<>>
    /\ delta = <<>>
    /\ alpha = Zero
    /\ f_current = Zero
    /\ f_new = Zero
    /\ ls_iter = 0
    /\ accepted = FALSE
    /\ row = 0
    /\ round_weights = <<>>
    /\ opt_pc = "off"
    /\ opt_ret = "none"
    /\ heap = [b \in Blocks(0) |-> "none"]
    /\ mem_err = "none"
    /\ pv_oom = FALSE

OptInit ==
    /\ arrival_values \in ArrivalMatrices
    /\ n_assets = 2
    /\ n_simulations = 3
    /\ initial_weights \in InitialWeights
    /\ risk_free_rate = Zero
    /\ max_iterations \in 0..MaxIter
    /\ tolerance \in Tolerances
    /\ weights = <<>>
    /\ iter = 0
    /\ hessian = <<>>
    /\ gradient = <<>>
    /\ delta = <<>>
    /\ alpha = Zero
    /\ f_current = Zero
    /\ f_new = Zero
    /\ ls_iter = 0
    /\ accepted = FALSE
    /\ row = 0
    /\ round_weights = <<>>
    /\ opt_pc = "call"
    /\ opt_ret = "none"
    /\ heap = [b \in Blocks(n_assets) |-> "none"]
    /\ mem_err = "none"
    /\ pv_oom = FALSE

OptNext ==
    \/ OptCall
    \/ OptLoop
    \/ AllocMatrixTable
    \/ AllocMatrixRow
    \/ AllocGradient
    \/ GradientStep
    \/ ZeroOffDiagonal
    \/ SolveDelta
    \/ LineSearchAttempt
    \/ LineSearchExhausted
    \/ ConvergenceCheck

(***************************************************************************)
(* moving_block_bootstrap (lines 28-69), called up to MaxCalls times in    *)
(* one process.  seed_set is the function's static flag; rng_seed is the   *)
(* seed the generator runs on, 1 until srand is called (C11 7.22.2.2), and *)
(* srand_calls counts the calls of srand.  The values of rand() are free.  *)
(* blocks records the copies as they are made: one entry per block that    *)
(* copied at least one element, with its row, start and length so far.     *)
(***************************************************************************)
\* the longest series
MaxReturns == 3

\* the largest output buffer, in cells
MaxCells == 4

\* calls of moving_block_bootstrap in one process
MaxCalls == 2

\* rand() returns a value in 0..RandMax (RAND_MAX in the code): enough to
\* reach every block start
RandMax == MaxReturns + 1

\* the series of n returns: distinct values, so that a cell of the output
\* tells which element it was copied from
Series(n) == [k \in 1..n |-> 10 + k]

\* the arguments of a call; block_size above n_returns and block_size 0
\* are among them
GenInputs ==
    {arg \in [n_returns : 1..MaxReturns, n_bootstrap : 0..MaxCells,
             sample_size : 0..MaxCells, block_size : 0..(MaxReturns + 1)] :
        arg.n_bootstrap * arg.sample_size <= MaxCells}

Seeds == {-1, 0, 1, 2}

\* a cell of the output buffer that has not been written
Unwritten == 0

\* what a read outside log_returns may yield
Garbage == {11, 99}

\* the count of draws stops growing here
DrawCap == MaxCells + 1

GenReturn(r) == gen_ret' = r /\ gen_pc' = "done"

\* lines 28-43: a call; the seeding, then the length test
GenCall ==
    /\ gen_pc = "idle"
    /\ calls < MaxCalls
    /\ calls' = calls + 1
    /\ \E arg \in GenInputs, sd \in Seeds :
         /\ log_returns' = Series(arg.n_returns)
         /\ n_returns' = arg.n_returns
         /\ n_bootstrap' = arg.n_bootstrap
         /\ sample_size' = arg.sample_size
         /\ block_size' = arg.block_size
         /\ seed' = sd
         /\ IF ShouldSeed(sd, seed_set)
            THEN /\ srand_calls' = srand_calls + 1
                 /\ rng_seed' = sd
                 /\ seed_set' = TRUE
            ELSE UNCHANGED <<srand_calls, rng_seed, seed_set>>
         /\ IF TooShort(arg.n_returns, arg.block_size)
            THEN GenReturn("NULL") /\ n_blocks' = 0
            ELSE /\ gen_pc' = "alloc"
                 /\ gen_ret' = "none"
                 /\ n_blocks' = arg.n_returns - arg.block_size + 1
    /\ UNCHANGED <<notGen, bootstrap_samples, bootstrap_idx, sample_idx,
                   block_start, copy_i, allocs, draws, blocks, oob>>

\* lines 44-49: the output buffer
GenAlloc ==
    /\ gen_pc = "alloc"
    /\ allocs' = allocs + 1
    /\ \E ok \in BOOLEAN :
         IF ok
         THEN /\ bootstrap_samples' =
                    [c \in 1..(n_bootstrap * sample_size) |-> Unwritten]
              /\ gen_pc' = "rows"
              /\ UNCHANGED gen_ret
         ELSE GenReturn("NULL") /\ UNCHANGED bootstrap_samples
    /\ bootstrap_idx' = 0
    /\ UNCHANGED <<notGen, genArgs, genStatic, calls, n_blocks, sample_idx,
                   block_start, copy_i, draws, blocks, oob>>

\* lines 52-53: the test of the row loop; line 68 when it ends
GenRowBegin ==
    /\ gen_pc = "rows"
    /\ IF bootstrap_idx < n_bootstrap
       THEN gen_pc' = "while" /\ sample_idx' = 0 /\ UNCHANGED gen_ret
       ELSE GenReturn("samples") /\ UNCHANGED sample_idx
    /\ UNCHANGED <<notGen, genArgs, genStatic, calls, n_blocks,
                   bootstrap_samples, bootstrap_idx, block_start, copy_i,
                   allocs, draws, blocks, oob>>

\* lines 55-57: the row is not full, a block start is drawn; a draw with
\* n_blocks = 0 divides by zero and ends the process
GenDraw ==
    /\ gen_pc = "while"
    /\ sample_idx < sample_size
    /\ \E r \in 0..RandMax :
         IF n_blocks = 0
         THEN gen_pc' = "crashed" /\ UNCHANGED block_start
         ELSE gen_pc' = "copy" /\ block_start' = random_int(r, n_blocks)
    /\ draws' = IF draws < DrawCap THEN draws + 1 ELSE draws
    /\ copy_i' = 0
    /\ UNCHANGED <<notGen, genArgs, genStatic, calls, n_blocks,
                   bootstrap_samples, bootstrap_idx, sample_idx, gen_ret,
                   allocs, blocks, oob>>

\* line 55 fails: the row is full, on to the next (line 52)
GenRowEnd ==
    /\ gen_pc = "while"
    /\ sample_idx >= sample_size
    /\ bootstrap_idx' = bootstrap_idx + 1
    /\ gen_pc' = "rows"
    /\ UNCHANGED <<notGen, genArgs, genStatic, calls, n_blocks,
                   bootstrap_samples, sample_idx, block_start, copy_i,
                   gen_ret, allocs, draws, blocks, oob>>

\* lines 60-64: one element of the block is copied; a read outside
\* log_returns yields garbage, a write outside the buffer is lost
GenCopy ==
    /\ gen_pc = "copy"
    /\ CopyGuard(copy_i, block_size, sample_idx, sample_size)
    /\ LET src    == block_start + copy_i
           dst    == bootstrap_idx * sample_size + sample_idx
           src_ok == src >= 0 /\ src < n_returns
           dst_ok == dst >= 0 /\ dst < Len(bootstrap_samples)
       IN  /\ \E v \in IF src_ok THEN {log_returns[src + 1]} ELSE Garbage :
                bootstrap_samples' =
                    IF dst_ok
                    THEN [bootstrap_samples EXCEPT ![dst + 1] = v]
                    ELSE bootstrap_samples
           /\ oob' = (oob \/ ~src_ok \/ ~dst_ok)
    /\ blocks' =
         IF copy_i = 0
         THEN Append(blocks, [row |-> bootstrap_idx, start |-> block_start,
                              len |-> 1])
         ELSE [blocks EXCEPT ![Len(blocks)].len = @ + 1]
    /\ sample_idx' = sample_idx + 1
    /\ copy_i' = copy_i + 1
    /\ UNCHANGED <<notGen, genArgs, genStatic, calls, n_blocks,
                   bootstrap_idx, block_start, gen_pc, gen_ret, allocs,
                   draws>>

\* line 60 fails: the block is over, back to the test of line 55
GenBlockEnd ==
    /\ gen_pc = "copy"
    /\ ~CopyGuard(copy_i, block_size, sample_idx, sample_size)
    /\ gen_pc' = "while"
    /\ UNCHANGED <<notGen, genArgs, genStatic, calls, n_blocks,
                   bootstrap_samples, bootstrap_idx, sample_idx,
                   block_start, copy_i, gen_ret, allocs, draws, blocks, oob>>

\* the caller has taken the result of the call: the arguments and locals of
\* the call are gone, seed_set stays (line 32: static)
GenCallOver ==
    /\ gen_pc = "done"
    /\ gen_pc' = "idle"
    /\ log_returns' = <<>>
    /\ n_returns' = 0
    /\ n_bootstrap' = 0
    /\ sample_size' = 0
    /\ block_size' = 0
    /\ seed' = 0
    /\ n_blocks' = 0
    /\ bootstrap_samples' = <<>>
    /\ bootstrap_idx' = 0
    /\ sample_idx' = 0
    /\ block_start' = 0
    /\ copy_i' = 0
    /\ gen_ret' = "none"
    /\ allocs' = 0
    /\ draws' = 0
    /\ blocks' = <<>>
    /\ oob' = FALSE
    /\ UNCHANGED <<notGen, genStatic, calls>>

GenOff ==
    /\ log_returns = <<>>
    /\ n_returns = 0
    /\ n_bootstrap = 0
    /\ sample_size = 0
    /\ block_size = 0
    /\ seed = 0
    /\ seed_set = FALSE
    /\ rng_seed = 1
    /\ srand_calls = 0
    /\ calls = 0
    /\ n_blocks = 0
    /\ bootstrap_samples = <<>>
    /\ bootstrap_idx = 0
    /\ sample_idx = 0
    /\ block_start = 0
    /\ copy_i = 0
    /\ gen_pc = "off"
    /\ gen_ret = "none"
    /\ allocs = 0
    /\ draws = 0
    /\ blocks = <<>>
    /\ oob = FALSE

\* the process before its first call: seed_set = 0 (line 32)
GenInit ==
    /\ log_returns = <<>>
    /\ n_returns = 0
    /\ n_bootstrap = 0
    /\ sample_size = 0
    /\ block_size = 0
    /\ seed = 0
    /\ seed_set = FALSE
    /\ rng_seed = 1
    /\ srand_calls = 0
    /\ calls = 0
    /\ n_blocks = 0
    /\ bootstrap_samples = <<>>
    /\ bootstrap_idx = 0
    /\ sample_idx = 0
    /\ block_start = 0
    /\ copy_i = 0
    /\ gen_pc = "idle"
    /\ gen_ret = "none"
    /\ allocs = 0
    /\ draws = 0
    /\ blocks = <<>>
    /\ oob = FALSE

GenNext ==
    \/ GenCall
    \/ GenAlloc
    \/ GenRowBegin
    \/ GenDraw
    \/ GenRowEnd
    \/ GenCopy
    \/ GenBlockEnd
    \/ GenCallOver

(***************************************************************************)
(* monte_carlo_simulation, the variant that returns the price paths        *)
(* (texto_trabalho_cribari/codes/functions_optimized.c, lines 76-117).     *)
(* results holds the final prices in its first iterations cells, then the  *)
(* path of iteration iter from cell iterations + iter * sample_size on.    *)
(***************************************************************************)
\* the largest number of iterations
MaxIterations == 2

\* the largest bootstrap set, in cells
MaxSimCells == 4

\* ln 2 to the precision of the model
Ln2 == Lit(61, 88)

\* the log returns of the bootstrap set
LogReturns == {Zero, Ln2, FNeg(Ln2)}

\* exp of libm on the log returns of the model, correctly rounded
Exp(x) ==
    IF x = Zero THEN FromInt(1)
    ELSE IF x = Ln2 THEN FromInt(2)
    ELSE IF x = FNeg(Ln2) THEN Lit(1, 2)
    ELSE NaN

\* the bootstrap sets: n_bootstrap rows of sample_size log returns
SimInputs ==
    {arg \in [n_bootstrap : 0..MaxSimCells, sample_size : 0..MaxSimCells] :
        arg.n_bootstrap * arg.sample_size <= MaxSimCells}

\* a store into results, lost when the index is outside the buffer
StoreResult(buf, idx, v) ==
    IF idx >= 0 /\ idx < Len(buf) THEN [buf EXCEPT ![idx + 1] = v] ELSE buf

InResults(idx) == idx >= 0 /\ idx < Len(results)

SimReturn(r) == sim_ret' = r /\ sim_pc' = "done"

\* lines 81-91: the warning, then the result buffer
SimCall ==
    /\ sim_pc = "call"
    /\ \E ok \in BOOLEAN :
         IF ok
         THEN /\ results' = [c \in 1..(iterations + iterations * mc_sample_size)
                                |-> Uninit]
              /\ sim_pc' = "iter"
              /\ UNCHANGED sim_ret
         ELSE SimReturn("NULL") /\ UNCHANGED results
    /\ mc_iter' = 0
    /\ UNCHANGED <<notSim, simArgs, current_price, mc_bootstrap_idx, mc_t,
                   sim_oob>>

\* lines 94-101: an iteration begins: the row is drawn and S0 is stored in
\* the first cell of the path.  A draw with n_bootstrap = 0 is rand() % 0,
\* undefined: the division traps and ends the process, or it yields some
\* number and the call goes on
SimIterBegin ==
    /\ sim_pc = "iter"
    /\ mc_iter < iterations
    /\ current_price' = S0
    /\ \E r \in 0..RandMax, traps \in BOOLEAN :
         IF mc_n_bootstrap = 0 /\ traps
         THEN /\ sim_pc' = "crashed"
              /\ UNCHANGED <<mc_bootstrap_idx, results, sim_oob>>
         ELSE LET idx == iterations + mc_iter * mc_sample_size
              IN  /\ mc_bootstrap_idx' = IF mc_n_bootstrap = 0 THEN r
                                         ELSE random_int(r, mc_n_bootstrap)
                  /\ results' = StoreResult(results, idx, S0)
                  /\ sim_oob' = (sim_oob \/ ~InResults(idx))
                  /\ sim_pc' = "path"
    /\ mc_t' = 0
    /\ UNCHANGED <<notSim, simArgs, mc_iter, sim_ret>>

\* lines 104-110: one time step of the path
SimStep ==
    /\ sim_pc = "path"
    /\ mc_t < mc_sample_size
    /\ LET src    == mc_bootstrap_idx * mc_sample_size + mc_t
           src_ok == src >= 0 /\ src < Len(mc_samples)
           idx    == iterations + mc_iter * mc_sample_size + mc_t
       IN  \E log_return \in IF src_ok THEN {mc_samples[src + 1]}
                             ELSE LogReturns :
             LET price == FMul(current_price, Exp(log_return))
             IN  /\ current_price' = price
                 /\ results' = StoreResult(results, idx, price)
                 /\ sim_oob' = (sim_oob \/ ~src_ok \/ ~InResults(idx))
    /\ mc_t' = mc_t + 1
    /\ UNCHANGED <<notSim, simArgs, mc_iter, mc_bootstrap_idx, sim_pc,
                   sim_ret>>

\* lines 112-113: the final price of the iteration
SimIterEnd ==
    /\ sim_pc = "path"
    /\ mc_t >= mc_sample_size
    /\ results' = StoreResult(results, mc_iter, current_price)
    /\ sim_oob' = (sim_oob \/ ~InResults(mc_iter))
    /\ mc_iter' = mc_iter + 1
    /\ sim_pc' = "iter"
    /\ UNCHANGED <<notSim, simArgs, current_price, mc_bootstrap_idx, mc_t,
                   sim_ret>>

\* line 116: every iteration is done
SimDone ==
    /\ sim_pc = "iter"
    /\ mc_iter >= iterations
    /\ SimReturn("results")
    /\ UNCHANGED <<notSim, simArgs, results, mc_iter, current_price,
                   mc_bootstrap_idx, mc_t, sim_oob>>

SimOff ==
    /\ S0 = Zero
    /\ mc_samples = <<>>
    /\ mc_n_bootstrap = 0
    /\ mc_sample_size = 0
    /\ iterations = 0
    /\ results = <<>>
    /\ mc_iter = 0
    /\ current_price = Zero
    /\ mc_bootstrap_idx = 0
    /\ mc_t = 0
    /\ sim_pc = "off"
    /\ sim_ret = "none"
    /\ sim_oob = FALSE

\* one call on each bootstrap set of SimInputs
SimInit ==
    /\ S0 \in {FromInt(100)}
    /\ \E arg \in SimInputs :
         /\ mc_n_bootstrap = arg.n_bootstrap
         /\ mc_sample_size = arg.sample_size
         /\ mc_samples \in [1..(arg.n_bootstrap * arg.sample_size) -> LogReturns]
    /\ iterations \in 0..MaxIterations
    /\ results = <<>>
    /\ mc_iter = 0
    /\ current_price = Zero
    /\ mc_bootstrap_idx = 0
    /\ mc_t = 0
    /\ sim_pc = "call"
    /\ sim_ret = "none"
    /\ sim_oob = FALSE

SimNext ==
    \/ SimCall
    \/ SimIterBegin
    \/ SimStep
    \/ SimIterEnd
    \/ SimDone

(***************************************************************************)
(* The specifications: each runs one operation from its initial states.    *)
(***************************************************************************)
InitSharpe == SharpeInit /\ OptOff /\ GenOff /\ SimOff

SharpeNext == SharpeCall

SpecSharpe == InitSharpe /\ [][SharpeNext]_vars

InitOpt == OptInit /\ SharpeOff /\ GenOff /\ SimOff

SpecOpt == InitOpt /\ [][OptNext]_vars

InitGen == GenInit /\ SharpeOff /\ OptOff /\ SimOff

SpecGen == InitGen /\ [][GenNext]_vars

\* the process keeps running: a step that can be taken is taken
SpecGenFair == InitGen /\ [][GenNext]_vars /\ WF_vars(GenNext)

InitSim == SimInit /\ SharpeOff /\ OptOff /\ GenOff

SpecSim == InitSim /\ [][SimNext]_vars

(***************************************************************************)
(* Properties of the optimizer, under SpecOpt.                             *)
(***************************************************************************)
\* the call has returned a weight vector and no allocation of
\* portfolio_values failed during it
ReturnedWeights == opt_pc = "done" /\ opt_ret = "weights" /\ ~pv_oom

\* |x - 1| is at most 8 units in the last place of 1
NearOne(x) ==
    LET tol == Round(1, 1, -(MantBits - 4), FALSE)
    IN  FLe(FSub(x, FromInt(1)), tol) /\ FLe(FSub(FromInt(1), x), tol)

\* C1 (as claimed): whenever the optimizer returns weights for initial
\* weights of positive sum, whatever max_iterations >= 0, every returned
\* weight is >= 0 and the returned weights sum to 1 (here: to 1 within a few
\* units in the last place).
C1_ReturnedOnSimplex ==
    (ReturnedWeights /\ FLt(Zero, SumFrom(initial_weights, 1, Zero)))
        => /\ \A k \in DOMAIN weights : FLe(Zero, weights[k])
           /\ NearOne(SumFrom(weights, 1, Zero))

\* C2 (as claimed): for initial weights on the simplex, the negated Sharpe
\* ratio at the returned weights is not above its value at the initial
\* weights, whatever the number of rounds.
C2_SharpeNotWorse ==
    (/\ ReturnedWeights
     /\ \A k \in DOMAIN initial_weights : FLe(Zero, initial_weights[k])
     /\ SumFrom(initial_weights, 1, Zero) = FromInt(1))
        => ~FLt(Objective(initial_weights, TRUE), Objective(weights, TRUE))

\* C6: when the line search of a round has ended, either it accepted a step,
\* and then f_new, the objective at the weights it left, is strictly below
\* f_current, or all LS_MAX attempts were rejected; so a round that ends with
\* weights worse than f_current is a round whose attempts were all rejected.
C6_AcceptedStepImproves ==
    opt_pc = "converge"
        => /\ IF accepted
              THEN /\ FLt(f_new, f_current)
                   /\ f_new = Objective(weights, ~pv_oom)
              ELSE ls_iter = LS_MAX
           /\ (FLt(f_current, Objective(weights, ~pv_oom))
                 => ~accepted /\ ls_iter = LS_MAX)

\* a round accepted a step after rejecting at least one attempt
C6_Witness == opt_pc = "converge" /\ accepted /\ ls_iter > 0 /\ ~pv_oom

\* the weights after k attempts of the line search of the round, when every
\* attempt starts from the weights the attempt before it left and attempt j
\* (from 0) steps by 2^-j * delta
RECURSIVE Cumulative(_)
Cumulative(k) ==
    IF k = 0 THEN round_weights
    ELSE ProjectToSimplex(StepWeights(Cumulative(k - 1),
                                      Round(1, 1, -(k - 1), FALSE), delta))

\* C11: during and after the line search of a round, ls_iter attempts were
\* rejected, at most LS_MAX; alpha is 2^-ls_iter, halved by each rejection;
\* and the weights are those of all the attempts made so far applied one on
\* top of the other from the weights held before the round, each attempt
\* clamped and renormalized, none undone.
C11_LineSearchCumulative ==
    opt_pc \in {"linesearch", "converge"}
        => /\ ls_iter \in 0..LS_MAX
           /\ accepted => opt_pc = "converge" /\ ls_iter < LS_MAX
           /\ alpha = Round(1, 1, -ls_iter, FALSE)
           /\ weights = Cumulative(IF accepted THEN ls_iter + 1 ELSE ls_iter)

\* after at least two rejected attempts the weights differ from the ones
\* a single step of the last scale from the weights before the round gives
C11_Witness ==
    /\ opt_pc = "linesearch"
    /\ ls_iter >= 2
    /\ ~pv_oom
    /\ weights # round_weights
    /\ weights # ProjectToSimplex(StepWeights(round_weights,
                      Round(1, 1, -(ls_iter - 1), FALSE), delta))

\* C9: no block is ever leaked or freed twice; when the call has returned
\* NULL no block is live, the working weights included; between rounds and
\* after the return no scratch block is live; and the call goes on past an
\* allocation of scratch storage only with the block it asked for.
C9_ScratchReleasedOnce ==
    /\ [](/\ mem_err = "none"
          /\ (opt_ret = "NULL" => \A b \in DOMAIN heap : heap[b] # "live")
          /\ (opt_pc \in {"loop", "done"}
                => \A b \in ScratchBlocks(n_assets) : heap[b] # "live"))
    /\ [][/\ (opt_pc = "alloc_gradient"
               => \/ opt_ret' = "NULL"
                  \/ \A b \in ScratchBlocks(n_assets) \ {DeltaBlock} :
                        heap'[b] = "live")
           /\ (opt_pc = "alloc_delta"
               => \/ opt_ret' = "NULL"
                  \/ \A b \in ScratchBlocks(n_assets) :
                        heap'[b] = "live")]_vars

\* the call failed in its second round: the scratch blocks of both rounds
\* were released
C9_Witness ==
    /\ opt_ret = "NULL"
    /\ iter = 1
    /\ heap[RowBlock(0)] = "freed"
    /\ heap[RowBlock(1)] = "freed"
    /\ heap[GradientBlock] = "freed"
    /\ heap[DeltaBlock] = "freed"

(***************************************************************************)
(* Properties of moving_block_bootstrap, under SpecGen.                    *)
(***************************************************************************)
\* the number of elements written to row r, over the blocks from j on
RECURSIVE Written(_, _)
Written(r, j) ==
    IF j > Len(blocks) THEN 0
    ELSE (IF blocks[j].row = r THEN blocks[j].len ELSE 0) + Written(r, j + 1)

\* where in its row block j begins: the lengths of the blocks of the same
\* row before it
RECURSIVE OffsetInRow(_)
OffsetInRow(j) ==
    IF j = 1 \/ blocks[j - 1].row # blocks[j].row THEN 0
    ELSE OffsetInRow(j - 1) + blocks[j - 1].len

\* C3: when a call with n_returns >= block_size returns a sample set, the
\* set has n_bootstrap rows of sample_size cells, exactly sample_size
\* elements were written to each row and none outside the rows, and every
\* cell holds an element of log_returns.
C3_RowsFullFromSeries ==
    (gen_ret = "samples" /\ n_returns >= block_size)
        => /\ Len(bootstrap_samples) = n_bootstrap * sample_size
           /\ ~oob
           /\ \A j \in DOMAIN blocks : blocks[j].row \in 0..(n_bootstrap - 1)
           /\ \A r \in 0..(n_bootstrap - 1) : Written(r, 1) = sample_size
           /\ \A c \in DOMAIN bootstrap_samples :
                 \E k \in 1..n_returns : bootstrap_samples[c] = log_returns[k]

\* two rows that begin with different elements were returned
C3_Witness ==
    /\ gen_ret = "samples"
    /\ n_bootstrap >= 2
    /\ sample_size >= 1
    /\ bootstrap_samples[1] # bootstrap_samples[sample_size + 1]

\* C4: a call with block_size > n_returns returns NULL at once: it never
\* allocates the output buffer and never draws a random number.
C4_TooShortFails ==
    block_size > n_returns
        => /\ gen_pc = "done"
           /\ gen_ret = "NULL"
           /\ allocs = 0
           /\ draws = 0
           /\ bootstrap_samples = <<>>

\* the second call of the process had a block longer than its series
C4_Witness ==
    calls > 1 /\ block_size > n_returns /\ n_bootstrap > 0 /\ sample_size > 0

\* C5: srand is called at most once in the process; a call of
\* moving_block_bootstrap calls it, with its seed, exactly when seed > 0 and
\* srand has not been called before; nothing else changes the generator's
\* seed.
C5_SeededAtMostOnce ==
    /\ [](srand_calls <= 1 /\ (seed_set <=> srand_calls = 1))
    /\ [][IF calls' = calls + 1 /\ seed' > 0 /\ srand_calls = 0
           THEN srand_calls' = 1 /\ rng_seed' = seed'
           ELSE UNCHANGED <<srand_calls, rng_seed>>]_vars

\* a later call with another positive seed left the generator on the seed
\* of the first
C5_Witness ==
    calls > 1 /\ srand_calls = 1 /\ seed > 0 /\ rng_seed > 0 /\ rng_seed # seed

\* C8: every block copied to a row starts at an index in
\* 0..n_returns - block_size, holds consecutive elements of log_returns in
\* order, lies in its row right after the block before it, and has
\* block_size elements unless it is the last block of its row.
C8_RowsAreBlockWindows ==
    \A j \in DOMAIN blocks :
        LET b == blocks[j]
        IN  /\ b.start \in 0..(n_returns - block_size)
            /\ b.len \in 1..block_size
            /\ (j < Len(blocks) /\ blocks[j + 1].row = b.row)
                  => b.len = block_size
            /\ \A k \in 0..(b.len - 1) :
                  bootstrap_samples[b.row * sample_size + OffsetInRow(j) + k + 1]
                      = log_returns[b.start + k + 1]

\* a returned row ends with a truncated block taken from the last window of
\* the series
C8_Witness ==
    /\ gen_ret = "samples"
    /\ \E j \in DOMAIN blocks :
         /\ blocks[j].len < block_size
         /\ blocks[j].start = n_returns - block_size
         /\ blocks[j].start > 0
         /\ OffsetInRow(j) > 0

\* C12 (as claimed), under SpecGenFair: in a call that passes the length
\* test, every block drawn copies at least one element, and the call
\* returns.
C12_GenerateTerminates ==
    /\ [](gen_pc = "copy" /\ copy_i = 0
            => CopyGuard(copy_i, block_size, sample_idx, sample_size))
    /\ (gen_pc = "alloc" /\ n_returns >= block_size) ~> (gen_pc = "done")

(***************************************************************************)
(* Properties of monte_carlo_simulation, under SpecSim.                    *)
(***************************************************************************)
\* C7 (as claimed): when the call returns its results, the first cell of
\* the path of every iteration holds S0.
C7_PathStartsAtS0 ==
    (sim_ret = "results" /\ mc_sample_size >= 1)
        => \A it \in 0..(iterations - 1) :
              results[iterations + it * mc_sample_size + 1] = S0

\* C13 (as claimed): for non-negative iterations, sample_size and
\* n_bootstrap, every read of the bootstrap set and every store into
\* results falls inside its array, and the row index is drawn with a
\* bound of at least 1.
C13_SimulateInBounds ==
    /\ ~sim_oob
    /\ (sim_pc \in {"path", "crashed"} => mc_n_bootstrap >= 1)

(***************************************************************************)
(* Properties of calculate_sharpe_ratio, under SpecSharpe.                 *)
(***************************************************************************)
IsConstantSeq(v) == \A i, j \in 1..Len(v) : v[i] = v[j]

\* C10 (as claimed): calculate_sharpe_ratio returns exactly 0 for fewer than
\* 2 values and for every constant sequence, for every risk-free rate.
C10_DegenerateIsZero ==
    (sh_pc = "done" /\ (Len(sh_values) <= 1 \/ IsConstantSeq(sh_values)))
        => sh_ret = Zero

=============================================================================
